---- MODULE Spec2Model ----
(***************************************************************************)
(* Reddit Post Analyzer (src/app.py): the acquisition pipeline             *)
(* get_post_by_id with its inlined content normaliser, the analysis        *)
(* client, the export formatter and the Streamlit session (one script run  *)
(* per user interaction) that holds the current post, analysis and chat.   *)
(***************************************************************************)
EXTENDS Integers, Sequences, FiniteSets, TLC

VARIABLES
    norm,               \* one call of the normaliser: its arguments and its output
    fetch,              \* one call of get_post_by_id: arguments, loop position, locals
    api_key,            \* sidebar text input: TRUE when a key is entered
    current_post_id,    \* st.session_state.current_post_id
    current_post,       \* st.session_state.current_post
    current_analysis,   \* st.session_state.current_analysis
    chat_history,       \* st.session_state.chat_history
    analysis_origin,    \* history variable: the record current_analysis was produced for
    chat_origin,        \* history variable: per exchange, the record it was produced for
    txt_tab1,           \* data of the download button rendered in tab1, column 2
    txt_tab2,           \* data of the download button rendered in tab2
    last_event          \* the user interaction handled by the last script run

vars == <<norm, fetch, api_key, current_post_id, current_post, current_analysis,
          chat_history, analysis_origin, chat_origin, txt_tab1, txt_tab2, last_event>>

sessionVars == <<api_key, current_post_id, current_post, current_analysis,
                 chat_history, analysis_origin, chat_origin, txt_tab1, txt_tab2,
                 last_event>>

(***************************************************************************)
(* Bounds of the model.                                                    *)
(***************************************************************************)
MaxReplies == 3         \* longest reply listing of a fetched document
MaxK == 3               \* largest max_comments passed to the normaliser directly
MaxHistory == 3         \* longest chat history

(***************************************************************************)
(* Program constants.                                                      *)
(***************************************************************************)
PreRequestPause == 1    \* time.sleep(1) before every request
BackoffPause == 5       \* time.sleep(5) after a 429
SliderMin == 5          \* st.slider("Numero de comentarios", 5, 30, 15)
SliderMax == 30
SliderDefault == 15

\* Python's None, as a record so that it compares with the records it stands in for.
None == [none |-> TRUE]
Pending == [pending |-> TRUE]

(***************************************************************************)
(* The thread document a 200 response carries.                             *)
(***************************************************************************)
DeletedBodies == {"[deleted]", "[removed]"}
Bodies == {"", "[deleted]", "[removed]", "a", "b"}

\* data[1]["data"]["children"] entries: a kind marker and the reply's data.
Comments ==
    {[kind |-> "t1", body |-> b, score |-> 1] : b \in Bodies}
        \cup {[kind |-> "more", body |-> "a", score |-> 1]}

RECURSIVE SeqsUpTo(_, _)
SeqsUpTo(S, n) ==
    IF n = 0 THEN {<<>>}
    ELSE LET shorter == SeqsUpTo(S, n - 1)
         IN  shorter \cup {Append(s, x) : s \in {t \in shorter : Len(t) = n - 1}, x \in S}

\* data[0]["data"]["children"][0]["data"]
PostData(t) ==
    [title |-> t, selftext |-> "body of " \o t, score |-> 7, num_comments |-> 2,
     permalink |-> "/r/sub/comments/" \o t, subreddit |-> "sub"]

\* A document: the post and, when len(data) > 1, the reply listing.
Doc(t, has, cs) == [post |-> PostData(t), has_listing |-> has, children |-> cs]

AllDocs ==
    {Doc("T", TRUE, cs) : cs \in SeqsUpTo(Comments, MaxReplies)}
        \cup {Doc("T", FALSE, <<>>)}

(***************************************************************************)
(* The content normaliser inlined in get_post_by_id.  The text block is a  *)
(* sequence of the pieces the f-strings concatenate.                       *)
(***************************************************************************)
PostBlock(p) ==
    [tag |-> "post", title |-> p.title, selftext |-> p.selftext, score |-> p.score,
     num_comments |-> p.num_comments, url |-> "https://reddit.com" \o p.permalink,
     subreddit |-> p.subreddit]

SectionHeader == [tag |-> "COMENTARIOS PRINCIPALES"]
NoCommentsMarker == [tag |-> "No hay comentarios disponibles."]
CommentBlock(n, c) == [tag |-> "COMENTARIO", n |-> n, score |-> c.score, body |-> c.body]

\* if comment_body and comment_body not in ["[deleted]", "[removed]"]
BodySurvives(body) == body # "" /\ body \notin DeletedBodies

\* The for loop over comments_data from position i on, with its continue and break;
\* yields <<comment_count, comment_section>>.
RECURSIVE CommentLoop(_, _, _, _, _)
CommentLoop(comments, i, comment_count, comment_section, max_comments) ==
    IF i > Len(comments) THEN <<comment_count, comment_section>>
    ELSE LET comment == comments[i]
         IN  IF comment.kind # "t1"
             THEN CommentLoop(comments, i + 1, comment_count, comment_section, max_comments)
             ELSE LET keep == BodySurvives(comment.body)
                      count == IF keep THEN comment_count + 1 ELSE comment_count
                      section == IF keep
                                 THEN Append(comment_section,
                                             CommentBlock(comment_count + 1, comment))
                                 ELSE comment_section
                  IN  IF count >= max_comments
                      THEN <<count, section>>
                      ELSE CommentLoop(comments, i + 1, count, section, max_comments)

\* Faulty variant of Normalize: with no reply kept, the empty section is appended unlabelled.
NormalizeEmptySection(doc, include_comments, max_comments) ==
    LET post_content == <<PostBlock(doc.post)>>
    IN  IF include_comments /\ doc.has_listing
        THEN post_content
                 \o CommentLoop(doc.children, 1, 0, <<SectionHeader>>, max_comments)[2]
        ELSE post_content

\* post_content as built on a 200 response.
Normalize(doc, include_comments, max_comments) ==
    LET post_content == <<PostBlock(doc.post)>>
    IN  IF include_comments /\ doc.has_listing
        THEN LET out == CommentLoop(doc.children, 1, 0, <<SectionHeader>>, max_comments)
             IN  IF out[1] > 0
                 THEN post_content \o out[2]
                 ELSE Append(post_content, NoCommentsMarker)
        ELSE post_content

\* The dict get_post_by_id returns.
BuildRecord(doc, include_comments, max_comments) ==
    [title |-> doc.post.title,
     content |-> Normalize(doc, include_comments, max_comments),
     score |-> doc.post.score,
     url |-> "https://reddit.com" \o doc.post.permalink,
     subreddit |-> doc.post.subreddit]

(***************************************************************************)
(* get_post_by_id: the nested loops over endpoints and header profiles.    *)
(***************************************************************************)
Endpoints == <<"old.reddit.com", "www.reddit.com", "reddit.com">>
HeadersList == <<"chrome", "safari", "postanalyzer">>

NumStrategies == Len(Endpoints) * Len(HeadersList)

\* The i-th pair the nested for loops reach: endpoints outside, headers inside.
Strategy(i) ==
    [endpoint |-> Endpoints[((i - 1) \div Len(HeadersList)) + 1],
     headers |-> HeadersList[((i - 1) % Len(HeadersList)) + 1]]

\* What one requests.get can come to.
HttpErrorCodes == {403, 500}
FailOutcomes ==
    {[kind |-> "timeout"], [kind |-> "connection"], [kind |-> "malformed"],
     [kind |-> "status", code |-> 429]}
        \cup {[kind |-> "status", code |-> c] : c \in HttpErrorCodes}
Success(doc) == [kind |-> "ok", doc |-> doc]

NoError == "None"
StatusText(code) == IF code = 403 THEN "Error 403: Forbidden" ELSE "Error 500: Server Error"

\* The value last_error takes on a failed attempt.
ErrorOf(o) ==
    CASE o.kind = "timeout" -> "Tiempo de espera agotado"
      [] o.kind = "connection" -> "Error de conexion"
      [] o.kind = "malformed" -> "list index out of range"
      [] o.kind = "status" /\ o.code = 429 ->
            "Rate limit alcanzado. Espera un momento antes de intentar de nuevo."
      [] OTHER -> StatusText(o.code)

\* The st.error shown when every attempt failed: the fixed text and what it interpolates.
ErrorMessage(last_error) ==
    [text |-> "No se pudo obtener el post de Reddit.",
     reasons |-> "Posibles razones",
     manual |-> "Solucion alternativa",
     last_error |-> last_error]

FetchIdle ==
    [pc |-> "idle", post_id |-> "", include_comments |-> FALSE, max_comments |-> 0,
     idx |-> 0, last_error |-> NoError, res |-> None, ret |-> Pending,
     attempts |-> <<>>, slept |-> 0, shown |-> None]

\* Entry of get_post_by_id: the arguments and last_error = None.
Call(post_id, include_comments, max_comments) ==
    [FetchIdle EXCEPT !.pc = "loop", !.post_id = post_id,
                      !.include_comments = include_comments,
                      !.max_comments = max_comments]

\* The fields every iteration sets, whatever the outcome.
Requested(f, o) ==
    [f EXCEPT !.idx = f.idx + 1, !.res = o,
              !.attempts = Append(f.attempts,
                                  [endpoint |-> Strategy(f.idx + 1).endpoint,
                                   headers |-> Strategy(f.idx + 1).headers,
                                   ok |-> o.kind = "ok"]),
              !.slept = f.slept + PreRequestPause]

\* Faulty variant of Attempt: a success stores the record and the loops go on.
AttemptKeepsGoing(f, o) ==
    IF o.kind = "ok"
    THEN [Requested(f, o) EXCEPT
              !.ret = BuildRecord(o.doc, f.include_comments, f.max_comments)]
    ELSE IF o.kind = "status" /\ o.code = 429
    THEN [Requested(f, o) EXCEPT !.last_error = ErrorOf(o),
                                 !.slept = f.slept + PreRequestPause + BackoffPause]
    ELSE [Requested(f, o) EXCEPT !.last_error = ErrorOf(o)]

\* Faulty variant of Attempt: a 429 pauses and leaves last_error as it was.
AttemptSilentRateLimit(f, o) ==
    IF o.kind = "ok"
    THEN [Requested(f, o) EXCEPT
              !.pc = "done",
              !.ret = BuildRecord(o.doc, f.include_comments, f.max_comments)]
    ELSE IF o.kind = "status" /\ o.code = 429
    THEN [Requested(f, o) EXCEPT !.slept = f.slept + PreRequestPause + BackoffPause]
    ELSE [Requested(f, o) EXCEPT !.last_error = ErrorOf(o)]

\* Faulty variant of Attempt: a 429 pauses and the same pair is requested again.
AttemptRetriesSame(f, o) ==
    IF o.kind = "ok"
    THEN [Requested(f, o) EXCEPT
              !.pc = "done",
              !.ret = BuildRecord(o.doc, f.include_comments, f.max_comments)]
    ELSE IF o.kind = "status" /\ o.code = 429
    THEN [Requested(f, o) EXCEPT !.idx = f.idx, !.last_error = ErrorOf(o),
                                 !.slept = f.slept + PreRequestPause + BackoffPause]
    ELSE [Requested(f, o) EXCEPT !.last_error = ErrorOf(o)]

\* One iteration of the inner loop body with outcome o of its request.
Attempt(f, o) ==
    IF o.kind = "ok"
    THEN [Requested(f, o) EXCEPT
              !.pc = "done",
              !.ret = BuildRecord(o.doc, f.include_comments, f.max_comments)]
    ELSE IF o.kind = "status" /\ o.code = 429
    THEN [Requested(f, o) EXCEPT !.last_error = ErrorOf(o),
                                 !.slept = f.slept + PreRequestPause + BackoffPause]
    ELSE [Requested(f, o) EXCEPT !.last_error = ErrorOf(o)]

\* Both loops ran out: the error is shown and None returned.
Exhausted(f) ==
    [f EXCEPT !.pc = "done", !.ret = None, !.shown = ErrorMessage(f.last_error)]

\* The whole call, for the outcomes outs[1], outs[2], ... of its requests.
RECURSIVE RunLoop(_, _)
RunLoop(f, outs) ==
    IF f.pc = "done" THEN f
    ELSE IF f.idx = NumStrategies THEN Exhausted(f)
    ELSE RunLoop(Attempt(f, outs[f.idx + 1]), outs)

GetPostById(post_id, include_comments, max_comments, outs) ==
    RunLoop(Call(post_id, include_comments, max_comments), outs)

(***************************************************************************)
(* The normaliser on its own: any document, any max_comments.              *)
(***************************************************************************)
NormIdle ==
    [pc |-> "idle", doc |-> Doc("T", FALSE, <<>>), include_comments |-> FALSE,
     max_comments |-> 0, content |-> <<>>]

NormCalls ==
    {[pc |-> "call", doc |-> d, include_comments |-> inc, max_comments |-> k,
      content |-> <<>>] : d \in AllDocs, inc \in BOOLEAN, k \in 0..MaxK}

\* Lines 94-126 run on the document of a 200 response.
NormalizeStep ==
    /\ norm.pc = "call"
    /\ norm' = [norm EXCEPT !.pc = "done",
                            !.content = BuildRecord(norm.doc, norm.include_comments,
                                                    norm.max_comments).content]
    /\ UNCHANGED <<fetch, sessionVars>>

(***************************************************************************)
(* get_post_by_id step by step, one request per step.                      *)
(***************************************************************************)
FetchDocs ==
    {Doc("T", TRUE, <<[kind |-> "t1", body |-> "a", score |-> 1],
                      [kind |-> "t1", body |-> "[deleted]", score |-> 1],
                      [kind |-> "t1", body |-> "b", score |-> 1]>>),
     Doc("U", FALSE, <<>>)}

FetchCalls ==
    {Call("abc", inc, k) : inc \in BOOLEAN, k \in 0..MaxK}

InLoop == fetch.pc = "loop" /\ fetch.idx < NumStrategies

\* res.status_code == 200 and the payload has the expected shape.
RequestSucceeds ==
    /\ InLoop
    /\ \E d \in FetchDocs : fetch' = Attempt(fetch, Success(d))
    /\ UNCHANGED <<norm, sessionVars>>

\* res.status_code == 429
RequestRateLimited ==
    /\ InLoop
    /\ fetch' = Attempt(fetch, [kind |-> "status", code |-> 429])
    /\ UNCHANGED <<norm, sessionVars>>

\* any other status code
RequestHttpError ==
    /\ InLoop
    /\ \E c \in HttpErrorCodes : fetch' = Attempt(fetch, [kind |-> "status", code |-> c])
    /\ UNCHANGED <<norm, sessionVars>>

\* requests.exceptions.Timeout
RequestTimesOut ==
    /\ InLoop
    /\ fetch' = Attempt(fetch, [kind |-> "timeout"])
    /\ UNCHANGED <<norm, sessionVars>>

\* requests.exceptions.ConnectionError
RequestConnectionError ==
    /\ InLoop
    /\ fetch' = Attempt(fetch, [kind |-> "connection"])
    /\ UNCHANGED <<norm, sessionVars>>

\* a 200 whose payload is not the expected document: res.json() or an index raises
RequestMalformed ==
    /\ InLoop
    /\ fetch' = Attempt(fetch, [kind |-> "malformed"])
    /\ UNCHANGED <<norm, sessionVars>>

\* the loops are over: st.error and return None
AllFailed ==
    /\ fetch.pc = "loop"
    /\ fetch.idx = NumStrategies
    /\ fetch' = Exhausted(fetch)
    /\ UNCHANGED <<norm, sessionVars>>

(***************************************************************************)
(* extract_post_id_from_url.  A URL is its sequence of "/"-separated       *)
(* segments; IdTokens are the segments that are lowercase alphanumerics.   *)
(***************************************************************************)
IdTokens == {"abc", "xyz"}
RedditHosts == {"reddit.com", "www.reddit.com", "old.reddit.com"}

PostId(s) == [id |-> s]

\* r'reddit\.com/r/[^/]+/comments/([a-z0-9]+)'
MatchPermalink(url) ==
    {i \in 1..Len(url) : /\ i + 4 <= Len(url)
                         /\ url[i] \in RedditHosts
                         /\ url[i + 1] = "r"
                         /\ url[i + 2] # ""
                         /\ url[i + 3] = "comments"
                         /\ url[i + 4] \in IdTokens}

\* r'redd\.it/([a-z0-9]+)'
MatchShortLink(url) ==
    {i \in 1..Len(url) : /\ i + 1 <= Len(url)
                         /\ url[i] = "redd.it"
                         /\ url[i + 1] \in IdTokens}

\* r'/comments/([a-z0-9]+)'
MatchComments(url) ==
    {i \in 2..Len(url) : /\ i + 1 <= Len(url)
                         /\ url[i] = "comments"
                         /\ url[i + 1] \in IdTokens}

Leftmost(S) == CHOOSE i \in S : \A j \in S : i <= j

extract_post_id_from_url(url) ==
    IF MatchPermalink(url) # {} THEN PostId(url[Leftmost(MatchPermalink(url)) + 4])
    ELSE IF MatchShortLink(url) # {} THEN PostId(url[Leftmost(MatchShortLink(url)) + 1])
    ELSE IF MatchComments(url) # {} THEN PostId(url[Leftmost(MatchComments(url)) + 1])
    ELSE None

Urls ==
    {<<>>,
     <<"www.reddit.com", "r", "sub", "comments", "abc", "title">>,
     <<"redd.it", "xyz">>,
     <<"example.com", "comments", "abc">>,
     <<"example.com", "about">>}

(***************************************************************************)
(* analyze_post and the chat completion: the call either returns text or   *)
(* raises.                                                                 *)
(***************************************************************************)
ErrorTag == "Error en analisis"

\* What analyze_post returns: the model's text, or the tagged error string.
analyze_post(post_content, llm_ok) ==
    IF llm_ok THEN [tag |-> "analysis", text |-> "summary"]
    ELSE [tag |-> ErrorTag, text |-> "api error"]

IsErrorString(analysis) == analysis # None /\ analysis.tag = ErrorTag

UserTexts == {"q1", "q2"}
Answer == "answer"

(***************************************************************************)
(* generate_txt_export: the document as the sequence of its sections.      *)
(* The generation timestamp of the header is left out.                     *)
(***************************************************************************)
ChatHeader == [tag |-> "HISTORIAL DE CHAT"]
UserLabel == "Usuario"
AssistantLabel == "Asistente"

ChatLine(msg) ==
    IF "user" \in DOMAIN msg THEN [tag |-> UserLabel, text |-> msg.user]
    ELSE IF "assistant" \in DOMAIN msg THEN [tag |-> AssistantLabel, text |-> msg.assistant]
    ELSE [tag |-> "", text |-> ""]

generate_txt_export(post_data, analysis, history) ==
    LET content ==
            <<[tag |-> "ANALISIS DE POST DE REDDIT"],
              [tag |-> "POST ORIGINAL", title |-> post_data.title,
               subreddit |-> post_data.subreddit, url |-> post_data.url,
               score |-> post_data.score, content |-> post_data.content],
              [tag |-> "ANALISIS", analysis |-> analysis]>>
    IN  IF history # <<>>
        THEN content \o <<ChatHeader>> \o [i \in 1..Len(history) |-> ChatLine(history[i])]
        ELSE content

(***************************************************************************)
(* What one script run renders from the session state it sees.             *)
(***************************************************************************)
Button(data) == [data |-> data]

\* tab1, column 2: if st.session_state.current_analysis: ... st.download_button
RenderTab1(key, post, analysis, history) ==
    IF key /\ analysis # None
    THEN Button(generate_txt_export(post, analysis, history))
    ELSE None

\* tab2, column 2: if st.session_state.chat_history: ... st.download_button
RenderTab2(key, post_id, post, analysis, history) ==
    IF key /\ post_id # None /\ history # <<>>
    THEN Button(generate_txt_export(post, analysis, history))
    ELSE None

Event(op, ok, input, n) == [op |-> op, ok |-> ok, input |-> input, n |-> n]

\* A run that changes no session state and renders both tabs from it.
RenderOnly(key) ==
    /\ api_key' = key
    /\ txt_tab1' = RenderTab1(key, current_post, current_analysis, chat_history)
    /\ txt_tab2' = RenderTab2(key, current_post_id, current_post, current_analysis,
                              chat_history)
    /\ last_event' = Event("render", FALSE, "", 0)
    /\ UNCHANGED <<current_post_id, current_post, current_analysis, chat_history,
                   analysis_origin, chat_origin>>

(***************************************************************************)
(* The session: one action per user interaction, each a whole script run.  *)
(***************************************************************************)
SliderValues == {SliderMin, SliderDefault, SliderMax}

\* The outcomes of the nine requests: n failures of one kind, then successes.
Outcomes(n, fail, doc) ==
    [i \in 1..NumStrategies |-> IF i <= n THEN fail ELSE Success(doc)]

\* The sidebar's API key is typed in or removed.
SetApiKey ==
    /\ \E key \in BOOLEAN : key # api_key /\ RenderOnly(key)
    /\ UNCHANGED <<norm, fetch>>

\* Any interaction without a handler of its own (a download, a widget edit).
Rerun ==
    /\ RenderOnly(api_key)
    /\ UNCHANGED <<norm, fetch>>

\* Lines 294-297 for every input of the button: the URL, the id extracted from it
\* and what get_post_by_id returns (None when it was not called).
UrlRuns ==
    {[url |-> url,
      post_id |-> extract_post_id_from_url(url),
      post |-> IF extract_post_id_from_url(url) = None THEN None
               ELSE GetPostById(extract_post_id_from_url(url).id, inc, k,
                                Outcomes(n, fail, doc)).ret] :
        url \in Urls, inc \in BOOLEAN, k \in SliderValues, n \in 0..NumStrategies,
        fail \in FailOutcomes, doc \in FetchDocs}

\* "Analizar Post" with no URL, an URL without an id, or every request failing.
AnalyzeUrlRejected ==
    /\ api_key
    /\ \E run \in UrlRuns : run.url = <<>> \/ run.post_id = None \/ run.post = None
    /\ RenderOnly(api_key)
    /\ UNCHANGED <<norm, fetch>>

\* "Analizar Post" with a post fetched: lines 297-305, then column 2 is rendered.
AnalyzeUrl ==
    /\ api_key
    /\ \E run \in UrlRuns, llm_ok \in BOOLEAN :
          LET post == run.post
              analysis == analyze_post(post.content, llm_ok)
          IN  /\ run.url # <<>>
              /\ run.post_id # None
              /\ post # None
              /\ current_post' = post
              /\ current_analysis' = analysis
              /\ current_post_id' = run.post_id
              /\ chat_history' = <<>>
              /\ analysis_origin' = post
              /\ chat_origin' = <<>>
              /\ txt_tab1' = RenderTab1(api_key, post, analysis, <<>>)
              /\ txt_tab2' = RenderTab2(api_key, run.post_id, post, analysis, <<>>)
              /\ last_event' = Event("url", TRUE, "", 0)
    /\ UNCHANGED <<norm, fetch, api_key>>

ManualTitles == {"", "M"}
ManualContents == {"", "pasted"}
ManualSubreddits == {"", "sub"}
ManualId == PostId("manual_20240101000000")

\* "Analizar contenido manual" without a title or without content.
AnalyzeManualRejected ==
    /\ api_key
    /\ \E title \in ManualTitles, content \in ManualContents : title = "" \/ content = ""
    /\ RenderOnly(api_key)
    /\ UNCHANGED <<norm, fetch>>

\* Faulty variant of AnalyzeManual: the record and analysis are replaced, the chat is kept.
AnalyzeManualKeepsChat ==
    /\ api_key
    /\ \E llm_ok \in BOOLEAN :
          LET post == [title |-> "M",
                       content |-> <<[tag |-> "manual", text |-> "pasted"]>>,
                       score |-> 0,
                       url |-> "Entrada manual",
                       subreddit |-> "unknown"]
              analysis == analyze_post(post.content, llm_ok)
          IN  /\ txt_tab1' = RenderTab1(api_key, current_post, current_analysis,
                                        chat_history)
              /\ current_post' = post
              /\ current_analysis' = analysis
              /\ current_post_id' = ManualId
              /\ analysis_origin' = post
              /\ txt_tab2' = RenderTab2(api_key, ManualId, post, analysis, chat_history)
              /\ last_event' = Event("manual", TRUE, "", 0)
    /\ UNCHANGED <<norm, fetch, api_key, chat_history, chat_origin>>

\* "Analizar contenido manual": lines 345-360.  Column 2 of tab1 was rendered
\* earlier in the run, from the state before the handler.
AnalyzeManual ==
    /\ api_key
    /\ \E title \in ManualTitles, content \in ManualContents,
          sub \in ManualSubreddits, llm_ok \in BOOLEAN :
          LET post == [title |-> title,
                       content |-> <<[tag |-> "manual", text |-> content]>>,
                       score |-> 0,
                       url |-> "Entrada manual",
                       subreddit |-> IF sub # "" THEN sub ELSE "unknown"]
              analysis == analyze_post(post.content, llm_ok)
          IN  /\ title # ""
              /\ content # ""
              /\ txt_tab1' = RenderTab1(api_key, current_post, current_analysis,
                                        chat_history)
              /\ current_post' = post
              /\ current_analysis' = analysis
              /\ current_post_id' = ManualId
              /\ chat_history' = <<>>
              /\ analysis_origin' = post
              /\ chat_origin' = <<>>
              /\ txt_tab2' = RenderTab2(api_key, ManualId, post, analysis, <<>>)
              /\ last_event' = Event("manual", TRUE, "", 0)
    /\ UNCHANGED <<norm, fetch, api_key>>

ChatEnabled == api_key /\ current_post_id # None

\* A chat turn whose completion call returns: both exchanges, then st.rerun().
AskAnswered ==
    /\ ChatEnabled
    /\ Len(chat_history) + 2 <= MaxHistory
    /\ \E user_input \in UserTexts :
          LET history == chat_history \o <<[user |-> user_input], [assistant |-> Answer]>>
          IN  /\ chat_history' = history
              /\ chat_origin' = chat_origin \o <<current_post, current_post>>
              /\ txt_tab1' = RenderTab1(api_key, current_post, current_analysis, history)
              /\ txt_tab2' = RenderTab2(api_key, current_post_id, current_post,
                                        current_analysis, history)
              /\ last_event' = Event("ask", TRUE, user_input, 0)
    /\ UNCHANGED <<norm, fetch, api_key, current_post_id, current_post,
                   current_analysis, analysis_origin>>

\* Faulty variant of AskFailed: the error is stored as the assistant's answer.
AskFailedPlaceholder ==
    /\ ChatEnabled
    /\ Len(chat_history) + 2 <= MaxHistory
    /\ \E user_input \in UserTexts :
          LET history == chat_history \o <<[user |-> user_input],
                                           [assistant |-> "Error"]>>
          IN  /\ chat_history' = history
              /\ chat_origin' = chat_origin \o <<current_post, current_post>>
              /\ txt_tab1' = RenderTab1(api_key, current_post, current_analysis,
                                        chat_history)
              /\ txt_tab2' = RenderTab2(api_key, current_post_id, current_post,
                                        current_analysis, history)
              /\ last_event' = Event("ask", FALSE, user_input, 0)
    /\ UNCHANGED <<norm, fetch, api_key, current_post_id, current_post,
                   current_analysis, analysis_origin>>

\* A chat turn whose completion call raises: st.error, no rerun.  Tab1 was
\* rendered before the user exchange was appended, tab2's button after it.
AskFailed ==
    /\ ChatEnabled
    /\ Len(chat_history) + 1 <= MaxHistory
    /\ \E user_input \in UserTexts :
          LET history == Append(chat_history, [user |-> user_input])
          IN  /\ chat_history' = history
              /\ chat_origin' = Append(chat_origin, current_post)
              /\ txt_tab1' = RenderTab1(api_key, current_post, current_analysis,
                                        chat_history)
              /\ txt_tab2' = RenderTab2(api_key, current_post_id, current_post,
                                        current_analysis, history)
              /\ last_event' = Event("ask", FALSE, user_input, 0)
    /\ UNCHANGED <<norm, fetch, api_key, current_post_id, current_post,
                   current_analysis, analysis_origin>>

\* Faulty variant of ClearChat: the analysis is dropped with the history.
ClearChatDropsAnalysis ==
    /\ ChatEnabled
    /\ chat_history' = <<>>
    /\ chat_origin' = <<>>
    /\ current_analysis' = None
    /\ analysis_origin' = current_post
    /\ txt_tab1' = None
    /\ txt_tab2' = None
    /\ last_event' = Event("clear", TRUE, "", Len(chat_history))
    /\ UNCHANGED <<norm, fetch, api_key, current_post_id, current_post>>

\* "Limpiar chat", then st.rerun().
ClearChat ==
    /\ ChatEnabled
    /\ chat_history' = <<>>
    /\ chat_origin' = <<>>
    /\ txt_tab1' = RenderTab1(api_key, current_post, current_analysis, <<>>)
    /\ txt_tab2' = RenderTab2(api_key, current_post_id, current_post, current_analysis,
                              <<>>)
    /\ last_event' = Event("clear", TRUE, "", Len(chat_history))
    /\ UNCHANGED <<norm, fetch, api_key, current_post_id, current_post,
                   current_analysis, analysis_origin>>

(***************************************************************************)
(* Specifications.                                                         *)
(***************************************************************************)
\* Lines 18-25 and the first render.
SessionInit ==
    /\ api_key = FALSE
    /\ current_post_id = None
    /\ current_post = None
    /\ current_analysis = None
    /\ chat_history = <<>>
    /\ analysis_origin = None
    /\ chat_origin = <<>>
    /\ txt_tab1 = None
    /\ txt_tab2 = None
    /\ last_event = Event("init", FALSE, "", 0)

Init == norm = NormIdle /\ fetch = FetchIdle /\ SessionInit

Next ==
    \/ SetApiKey
    \/ Rerun
    \/ AnalyzeUrlRejected
    \/ AnalyzeUrl
    \/ AnalyzeManualRejected
    \/ AnalyzeManual
    \/ AskAnswered
    \/ AskFailed
    \/ ClearChat

Spec == Init /\ [][Next]_vars

InitNorm == norm \in NormCalls /\ fetch = FetchIdle /\ SessionInit

NextNorm == NormalizeStep

SpecNorm == InitNorm /\ [][NextNorm]_vars

InitFetch == norm = NormIdle /\ fetch \in FetchCalls /\ SessionInit

NextFetch ==
    \/ RequestSucceeds
    \/ RequestRateLimited
    \/ RequestHttpError
    \/ RequestTimesOut
    \/ RequestConnectionError
    \/ RequestMalformed
    \/ AllFailed

SpecFetch == InitFetch /\ [][NextFetch]_vars

\* Every request returns or times out, so the loop always takes its next step.
FairSpecFetch == SpecFetch /\ WF_vars(NextFetch)

(***************************************************************************)
(* Properties.                                                             *)
(***************************************************************************)
Replies(content) == SelectSeq(content, LAMBDA b : b.tag = "COMENTARIO")
Has(content, block) == \E i \in 1..Len(content) : content[i] = block
IsSurvivor(c) == c.kind = "t1" /\ BodySurvives(c.body)
Survivors(children) == SelectSeq(children, IsSurvivor)
Returned == fetch.pc = "done" /\ fetch.ret # None /\ fetch.ret # Pending
GaveUp == fetch.pc = "done" /\ fetch.ret = None

\* The nine endpoint/header-profile pairs in the order of the two lists.
ListOrder ==
    <<<<"old.reddit.com", "chrome">>, <<"old.reddit.com", "safari">>,
      <<"old.reddit.com", "postanalyzer">>,
      <<"www.reddit.com", "chrome">>, <<"www.reddit.com", "safari">>,
      <<"www.reddit.com", "postanalyzer">>,
      <<"reddit.com", "chrome">>, <<"reddit.com", "safari">>,
      <<"reddit.com", "postanalyzer">>>>

\* C1: the strategies are attempted in list order; the first one that succeeds ends
\* the call, nothing is attempted after it, and the record returned is the one built
\* from that strategy's response.
C1_FirstSuccessReturned ==
    /\ Len(fetch.attempts) <= Len(ListOrder)
    /\ \A i \in 1..Len(fetch.attempts) :
          /\ fetch.attempts[i].endpoint = ListOrder[i][1]
          /\ fetch.attempts[i].headers = ListOrder[i][2]
          /\ fetch.attempts[i].ok =>
                /\ i = Len(fetch.attempts)
                /\ Returned
                /\ fetch.res.kind = "ok"
                /\ fetch.ret = BuildRecord(fetch.res.doc, fetch.include_comments,
                                           fetch.max_comments)
    /\ Returned => Len(fetch.attempts) >= 1 /\ fetch.attempts[Len(fetch.attempts)].ok

\* C1 witness: two strategies failed, the third succeeded and its record is returned.
C1_Witness ==
    /\ Returned
    /\ Len(fetch.attempts) = 3
    /\ ~fetch.attempts[1].ok /\ ~fetch.attempts[2].ok /\ fetch.attempts[3].ok
    /\ fetch.ret.title = "U"

C3_AtMostKReplies ==
    (norm.pc = "done" /\ norm.include_comments) =>
        LET replies == Replies(norm.content)
            survivors == Survivors(norm.doc.children)
        IN  /\ Len(replies) <= norm.max_comments
            /\ Len(replies) <= Len(survivors)
            /\ \A i \in 1..Len(replies) :
                  /\ BodySurvives(replies[i].body)
                  /\ i <= Len(survivors) => replies[i].body = survivors[i].body

\* C4 as stated: include_comments with no survivor, a missing listing included,
\* gives the marker and no section header; without include_comments neither appears.
C4_MarkerWheneverNoSurvivor ==
    norm.pc = "done" =>
        /\ (norm.include_comments /\ Survivors(norm.doc.children) = <<>>) =>
              /\ Has(norm.content, NoCommentsMarker)
              /\ ~Has(norm.content, SectionHeader)
        /\ ~norm.include_comments =>
              /\ ~Has(norm.content, NoCommentsMarker)
              /\ ~Has(norm.content, SectionHeader)
              /\ Replies(norm.content) = <<>>

\* C4 amended: include_comments with a reply listing present and no survivor gives
\* the marker and no section header; without a listing, or without include_comments,
\* the text has neither marker nor section.
C4_MarkerWhenListingHasNoSurvivor ==
    norm.pc = "done" =>
        /\ (norm.include_comments /\ norm.doc.has_listing
                /\ Survivors(norm.doc.children) = <<>>) =>
              /\ Has(norm.content, NoCommentsMarker)
              /\ ~Has(norm.content, SectionHeader)
              /\ Replies(norm.content) = <<>>
        /\ (~norm.include_comments \/ ~norm.doc.has_listing) =>
              /\ ~Has(norm.content, NoCommentsMarker)
              /\ ~Has(norm.content, SectionHeader)
              /\ Replies(norm.content) = <<>>

\* C4 witness: a listing whose replies are all filtered out, normalised with comments.
C4_Witness ==
    /\ norm.pc = "done"
    /\ norm.include_comments
    /\ norm.doc.has_listing
    /\ Len(norm.doc.children) = 2
    /\ norm.max_comments = 2
    /\ Has(norm.content, NoCommentsMarker)

\* C5: a chat turn whose completion call fails appends exactly the user exchange; one
\* whose call succeeds appends the user exchange and then one assistant exchange.
C5_AskAppends ==
    [][last_event'.op = "ask" =>
          IF last_event'.ok
          THEN chat_history' = chat_history \o <<[user |-> last_event'.input],
                                                 [assistant |-> Answer]>>
          ELSE chat_history' = Append(chat_history, [user |-> last_event'.input])]_vars

\* C5 witness: an answered turn followed by a failed one.
C5_Witness ==
    /\ last_event.op = "ask"
    /\ ~last_event.ok
    /\ chat_history = <<[user |-> "q1"], [assistant |-> Answer], [user |-> "q2"]>>

C6_Associated ==
    /\ (current_post = None /\ current_analysis = None /\ current_post_id = None)
          \/ (current_post # None /\ current_analysis # None /\ current_post_id # None)
    /\ analysis_origin = current_post
    /\ Len(chat_origin) = Len(chat_history)
    /\ \A i \in 1..Len(chat_origin) : chat_origin[i] = current_post

\* C6: the analysis and every exchange of the history were produced for the current
\* record, the three session fields are all unset or all set, and the run that
\* replaces the record empties the history and replaces the analysis.
C6_HistoryBelongsToRecord ==
    /\ []C6_Associated
    /\ [][last_event'.op \in {"url", "manual"} =>
             /\ chat_history' = <<>>
             /\ analysis_origin' = current_post'
             /\ current_analysis' # None]_vars

\* C6 witness: a manual record acquired while the record before it had a chat.
C6_Witness ==
    /\ last_event.op = "manual"
    /\ current_post.title = "M"
    /\ chat_history = <<>>
    /\ txt_tab1 # None
    /\ Has(txt_tab1.data, ChatHeader)

\* C7 as stated: the stored analysis is never the error-tagged string.
C7_ErrorNeverStored == ~IsErrorString(current_analysis)

\* C8: clearing the chat empties the history and leaves record, analysis and id.
C8_ClearKeepsRecord ==
    [][last_event'.op = "clear" =>
          /\ chat_history' = <<>>
          /\ UNCHANGED <<current_post, current_analysis, current_post_id>>]_vars

\* C8 witness: a chat of three exchanges was cleared and the record is still there.
C8_Witness ==
    /\ last_event.op = "clear"
    /\ last_event.n = 3
    /\ chat_history = <<>>
    /\ current_post # None
    /\ current_analysis # None

\* C9 as stated: the export offered right after an acquisition or a reset has no
\* chat-transcript section.
C9_ExportOmitsChat ==
    last_event.op \in {"url", "manual", "clear"} =>
        /\ txt_tab1 # None => ~Has(txt_tab1.data, ChatHeader)
        /\ txt_tab2 # None => ~Has(txt_tab2.data, ChatHeader)

C10_Bounded ==
    /\ Len(fetch.attempts) <= 9
    /\ \A i, j \in 1..Len(fetch.attempts) :
          (fetch.attempts[i].endpoint = fetch.attempts[j].endpoint
              /\ fetch.attempts[i].headers = fetch.attempts[j].headers) => i = j
    /\ fetch.pc = "done" => fetch.ret # Pending

\* C10: a 429 costs the fixed pause and moves on to the next pair; no pair is
\* requested twice, at most nine requests are made, and the call always ends, with a
\* record or with None.
C10_RateLimitMovesOn ==
    /\ []C10_Bounded
    /\ [][(fetch'.idx # fetch.idx /\ fetch'.res = [kind |-> "status", code |-> 429]) =>
             /\ fetch'.slept = fetch.slept + PreRequestPause + BackoffPause
             /\ fetch'.idx = fetch.idx + 1
             /\ Len(fetch'.attempts) = Len(fetch.attempts) + 1
             /\ fetch'.ret = Pending]_vars
    /\ <>(fetch.pc = "done")

\* C10 witness: nine rate-limited requests, then the call gave up.
C10_Witness ==
    /\ GaveUp
    /\ Len(fetch.attempts) = 9
    /\ fetch.slept = 9 * (PreRequestPause + BackoffPause)

====
